---- MODULE Spec2Model ----
(***************************************************************************)
(* BE Route Bot: the route engine of be_route_bot.py.                      *)
(*                                                                         *)
(* nearest_neighbor builds an initial tour, two_opt improves it by segment *)
(* reversals, build_maps_links cuts the ordered points into chunks of ten  *)
(* and handle_addresses runs the three in a row for one chat message.      *)
(* Every loop of the source is a sequence of steps of the model: one step  *)
(* per loop iteration, so that the intermediate values of the locals       *)
(* (path, unvisited, best, improved, i, j, links, idx) are states.         *)
(*                                                                         *)
(* Tours hold 0-based point indices as in the source; TLA+ sequences are   *)
(* 1-based, so points[k] of the source is points[k + 1] here, and the loop *)
(* variables i, j, idx keep their Python values.                           *)
(***************************************************************************)
EXTENDS Integers, Sequences, FiniteSets, TLC

VARIABLES
    pc,           \* where the program is: "idle", a loop of a function, "done"
    caller,       \* the entry point running: a core function or the handler
    depot,        \* context.user_data["depot"]: <<>> while unset, else <<c>>
    points,       \* the Point Set of the running call
    labels,       \* handle_addresses: the labels next to points
    start_index,  \* nearest_neighbor: its argument
    unvisited,    \* nearest_neighbor: local
    path,         \* nearest_neighbor: local, and its return value
    current,      \* nearest_neighbor: local
    tour,         \* two_opt: the tour it was called with
    route,        \* two_opt: local (reassigned at the end of every pass)
    best,         \* two_opt: local, and its return value
    improved,     \* two_opt: local
    i,            \* two_opt: outer loop variable
    j,            \* two_opt: inner loop variable
    passes,       \* two_opt: iterations of the while-loop begun in this call
    moves,        \* two_opt: candidates accepted in this call
    results,      \* one record per completed call of two_opt: its argument (tour),
                  \*   the tour returned (best), and the passes and moves it took
    ordered,      \* build_maps_links: its argument
    links,        \* build_maps_links: local, and its return value
    idx,          \* build_maps_links: loop variable
    response      \* handle_addresses: the reply sent, <<>> before

vars == <<pc, caller, depot, points, labels, start_index, unvisited, path, current,
          tour, route, best, improved, i, j, passes, moves, results,
          ordered, links, idx, response>>

(***************************************************************************)
(* Bounds of the model.                                                    *)
(***************************************************************************)
\* Largest Point Set handed to nearest_neighbor, two_opt and handle_addresses.
MaxPoints == 5
\* Longest point list handed to build_maps_links on its own.
MaxLinkPoints == 25
\* The counters passes and moves stop counting here.
CountCap == 8

\* chunk_size of build_maps_links.
chunk_size == 10

(***************************************************************************)
(* Coordinates.  A coordinate is <<latitude, longitude>> in whole degrees. *)
(* The first four are a grid corner with ties ((0,1) and (1,0) are equally *)
(* far from (0,0)); the seven are in general position for the tour length: *)
(* no two different pairings of four of them have route lengths closer     *)
(* than 35 m, so that sums of rounded metres compare as the sums of the    *)
(* source's floating-point kilometres do.                                  *)
(***************************************************************************)
Coords == << <<0, 0>>, <<0, 1>>, <<0, 2>>, <<1, 0>>, <<1, 2>>, <<1, 3>>, <<2, 0>> >>

CoordSet == {Coords[k] : k \in 1..Len(Coords)}

\* The grid corner: (0,1) and (1,0) are equidistant from (0,0).
GridSet == {Coords[k] : k \in 1..4}

CoordIndex(c) == CHOOSE k \in 1..Len(Coords) : Coords[k] = c

\* haversine of the source at each pair of Coords, in metres (the source's
\* kilometres times 1000, rounded to the nearest integer).
HaversineMetres ==
    <<
      <<     0, 111195, 222390, 111195, 248629, 351613, 222390>>,
      <<111195,      0, 111195, 157249, 157249, 248629, 248629>>,
      <<222390, 111195,      0, 248629, 111195, 157249, 314475>>,
      <<111195, 157249, 248629,      0, 222356, 333534, 111195>>,
      <<248629, 157249, 111195, 222356,      0, 111178, 248569>>,
      <<351613, 248629, 157249, 333534, 111178,      0, 351517>>,
      <<222390, 248629, 314475, 111195, 248569, 351517,      0>>
    >>

haversine(coord1, coord2) == HaversineMetres[CoordIndex(coord1)][CoordIndex(coord2)]

(***************************************************************************)
(* Python's list operations.                                               *)
(***************************************************************************)
Min(a, b) == IF a < b THEN a ELSE b

\* s[a:b] for 0 <= a, with b clamped to len(s) as Python does.
Slice(s, a, b) == SubSeq(s, a + 1, Min(b, Len(s)))

\* s[::-1]
Reverse(s) == [k \in 1..Len(s) |-> s[Len(s) + 1 - k]]

\* list(range(n))
Range(n) == [k \in 1..n |-> k - 1]

\* s.remove(x): s without the first occurrence of x (x is in s at every call).
Remove(s, x) ==
    LET p == CHOOSE k \in 1..Len(s) : s[k] = x /\ \A m \in 1..(k - 1) : s[m] /= x
    IN  SubSeq(s, 1, p - 1) \o SubSeq(s, p + 1, Len(s))

Elems(s) == {s[k] : k \in 1..Len(s)}

IsInjective(s) == \A a, b \in 1..Len(s) : a /= b => s[a] /= s[b]

\* The sequences of length n over the set S.
SeqsOfLen(S, n) == [1..n -> S]

(***************************************************************************)
(* route_distance: the sum of haversine over consecutive elements of the   *)
(* route, an open path (no leg back to the first element).                 *)
(***************************************************************************)
RECURSIVE SumLegs(_, _, _)
SumLegs(r, pts, k) ==
    IF k >= Len(r) THEN 0
    ELSE haversine(pts[r[k] + 1], pts[r[k + 1] + 1]) + SumLegs(r, pts, k + 1)

route_distance(r, pts) == SumLegs(r, pts, 1)

(***************************************************************************)
(* geocode and the chat front end.  An address line is a string; the       *)
(* geocoder knows one address per coordinate and no other.                 *)
(***************************************************************************)
Addresses == <<"a00", "a01", "a02", "a10", "a12", "a13", "a20">>

UnknownAddress == "nowhere"

DepotLabel == "Depósito"

\* geocode(address): <<coordinate>>, or <<>> where the source raises ValueError.
geocode(address) ==
    IF \E k \in 1..Len(Addresses) : Addresses[k] = address
    THEN <<Coords[CHOOSE k \in 1..Len(Addresses) : Addresses[k] = address]>>
    ELSE <<>>

(***************************************************************************)
(* nearest_neighbor(points, start_index)                                   *)
(***************************************************************************)
\* A variant without "unvisited.remove(start_index)".
InitialUnvisitedWithStart(pts, s) == Range(Len(pts))

\* unvisited after "unvisited = list(range(len(points)))" and
\* "unvisited.remove(start_index)".
InitialUnvisited(pts, s) == Remove(Range(Len(pts)), s)

\* A variant of the scan that keeps the last minimal element (a scan with <=).
NearestInLast(unv, cur, pts) ==
    LET key(x) == haversine(pts[cur + 1], pts[x + 1])
        p == CHOOSE k \in 1..Len(unv) :
                 /\ \A m \in 1..Len(unv) : key(unv[k]) <= key(unv[m])
                 /\ \A m \in (k + 1)..Len(unv) : key(unv[m]) > key(unv[k])
    IN  unv[p]

\* min(unvisited, key=lambda i: haversine(points[current], points[i])): Python's
\* min returns the first element of the list whose key is minimal.
NearestIn(unv, cur, pts) ==
    LET key(x) == haversine(pts[cur + 1], pts[x + 1])
        p == CHOOSE k \in 1..Len(unv) :
                 /\ \A m \in 1..Len(unv) : key(unv[k]) <= key(unv[m])
                 /\ \A m \in 1..(k - 1) : key(unv[m]) > key(unv[k])
    IN  unv[p]

\* The assignments of nearest_neighbor before its loop.
NNBegin(pts, s) ==
    /\ points' = pts
    /\ start_index' = s
    /\ unvisited' = InitialUnvisited(pts, s)
    /\ path' = <<s>>
    /\ current' = s
    /\ pc' = "nn_while"

(***************************************************************************)
(* two_opt(route, points)                                                  *)
(***************************************************************************)
\* A variant whose reversed slice starts one position early (at i - 1).
CandidateFromBefore(b, ii, jj) ==
    Slice(b, 0, ii - 1) \o Reverse(Slice(b, ii - 1, jj)) \o Slice(b, jj, Len(b))

\* A variant whose reversed slice includes position j (best[i:j+1]).
CandidateThroughJ(b, ii, jj) ==
    Slice(b, 0, ii) \o Reverse(Slice(b, ii, jj + 1)) \o Slice(b, jj + 1, Len(b))

\* new_route = best[:i] + best[i:j][::-1] + best[j:]
Candidate(b, ii, jj) ==
    Slice(b, 0, ii) \o Reverse(Slice(b, ii, jj)) \o Slice(b, jj, Len(b))

\* A variant with the comparison turned round.
ImprovesReversed(new_route, b, pts) == route_distance(new_route, pts) > route_distance(b, pts)

\* route_distance(new_route, points) < route_distance(best, points)
Improves(new_route, b, pts) == route_distance(new_route, pts) < route_distance(b, pts)

\* A variant without "improved = True".
ForBodyNoFlag(b, imp, pts, ii, jj) ==
    IF jj - ii = 1
    THEN [best |-> b, improved |-> imp]
    ELSE LET new_route == Candidate(b, ii, jj)
         IN  IF Improves(new_route, b, pts)
             THEN [best |-> new_route, improved |-> imp]
             ELSE [best |-> b, improved |-> imp]

\* The body of the inner for-loop at (i, j): best and improved after it.
ForBody(b, imp, pts, ii, jj) ==
    IF jj - ii = 1
    THEN [best |-> b, improved |-> imp]
    ELSE LET new_route == Candidate(b, ii, jj)
         IN  IF Improves(new_route, b, pts)
             THEN [best |-> new_route, improved |-> TRUE]
             ELSE [best |-> b, improved |-> imp]

\* A variant that loops whatever the flag says ("while True:").
WhileConditionAlways(imp) == TRUE

\* "while improved:"
WhileCondition(imp) == imp

\* The assignments of two_opt before its loop.
TwoOptBegin(r) ==
    /\ tour' = r
    /\ route' = r
    /\ best' = r
    /\ improved' = TRUE
    /\ i' = 0
    /\ j' = 0
    /\ passes' = 0
    /\ moves' = 0
    /\ pc' = "two_opt_while"

Count(c) == IF c < CountCap THEN c + 1 ELSE c

(***************************************************************************)
(* build_maps_links(points)                                                *)
(***************************************************************************)
\* A variant one point short (points[idx:idx + chunk_size - 1]).
ChunkAtShort(pts, k) == Slice(pts, k, k + chunk_size - 1)

\* chunk = points[idx:idx + chunk_size]
ChunkAt(pts, k) == Slice(pts, k, k + chunk_size)

\* f"{p[0]},{p[1]}": the text of a coordinate, its two numbers in order.
CoordText(p) == <<p[1], p[2]>>

\* The URL built from one chunk: its origin, destination and waypoints
\* parameters (no waypoints parameter when the chunk has at most two points).
LinkOf(chunk) ==
    [origin      |-> CoordText(chunk[1]),
     destination |-> CoordText(chunk[Len(chunk)]),
     waypoints   |-> IF Len(chunk) > 2
                     THEN [k \in 1..(Len(chunk) - 2) |-> CoordText(chunk[k + 1])]
                     ELSE <<>>]

\* The assignments of build_maps_links before its loop.
LinksBegin(pts) ==
    /\ ordered' = pts
    /\ links' = <<>>
    /\ idx' = 0
    /\ pc' = "links_for"

(***************************************************************************)
(* The inputs of the model.                                                *)
(***************************************************************************)
\* The permutations of 0..n-1 as tours.
Tours(n) == {[k \in 1..n |-> f[k - 1]] : f \in Permutations(0..(n - 1))}

\* The coordinates of the set S listed in the order of Coords.
RECURSIVE Listed(_, _)
Listed(S, k) ==
    IF k > Len(Coords) THEN <<>>
    ELSE (IF Coords[k] \in S THEN <<Coords[k]>> ELSE <<>>) \o Listed(S, k + 1)

\* Point Sets of pairwise distinct coordinates for two_opt.  two_opt reads a
\* point only through the tour, and the tours range over all permutations, so
\* one listing of each set of coordinates stands for all its listings.  The
\* coordinates are distinct because a repeated coordinate gives tours of equal
\* length whose floating-point sums may differ in the last bit, which sums of
\* whole metres do not show.
DistinctPointSets ==
    {Listed(S, 1) : S \in {T \in SUBSET CoordSet : Cardinality(T) \in 1..MaxPoints}}

\* The first n of Coords, for every n: the Point Sets of the fair specification.
PrefixPointSets == {SubSeq(Coords, 1, n) : n \in 1..MaxPoints}

\* Point Sets for nearest_neighbor: every list over the grid, repeats included.
GridPointSets == UNION {SeqsOfLen(GridSet, n) : n \in 1..MaxPoints}

\* Point lists for build_maps_links: n coordinates that walk through Coords
\* from an offset with a stride (stride 0 repeats one coordinate).
Walk(n, offset, stride) ==
    [k \in 1..n |-> Coords[((offset + (k - 1) * stride) % Len(Coords)) + 1]]

PointLists ==
    {Walk(n, offset, stride) : n \in 0..MaxLinkPoints, offset \in {0, 3}, stride \in {0, 1, 3}}

\* Message texts for handle_addresses after the depot dep: lines of pairwise
\* distinct known addresses other than the depot's, or such lines followed by
\* an address the geocoder does not know.
KnownLines(dep) ==
    UNION {{l \in SeqsOfLen(Elems(Addresses), n) :
                /\ IsInjective(l)
                /\ \A k \in 1..n : geocode(l[k]) /= <<dep>>} : n \in 0..(MaxPoints - 1)}

MessageLines(dep) ==
    KnownLines(dep) \cup
    {Append(l, UnknownAddress) : l \in {m \in KnownLines(dep) : Len(m) <= 1}}

\* What /depot is sent with: an address as its arguments, or a shared location,
\* or neither.
DepotInputs ==
    {[args |-> <<Addresses[k]>>, location |-> <<>>] : k \in 1..Len(Addresses)} \cup
    {[args |-> <<UnknownAddress>>, location |-> <<>>]} \cup
    {[args |-> <<>>, location |-> <<c>>] : c \in CoordSet} \cup
    {[args |-> <<>>, location |-> <<>>]}

(***************************************************************************)
(* The state after construction: no depot, nothing running.                *)
(***************************************************************************)
Init ==
    /\ pc = "idle"
    /\ caller = "none"
    /\ depot = <<>>
    /\ points = <<>>
    /\ labels = <<>>
    /\ start_index = 0
    /\ unvisited = <<>>
    /\ path = <<>>
    /\ current = 0
    /\ tour = <<>>
    /\ route = <<>>
    /\ best = <<>>
    /\ improved = FALSE
    /\ i = 0
    /\ j = 0
    /\ passes = 0
    /\ moves = 0
    /\ results = <<>>
    /\ ordered = <<>>
    /\ links = <<>>
    /\ idx = 0
    /\ response = <<>>

nnVars == <<start_index, unvisited, path, current>>
twoOptVars == <<tour, route, best, improved, i, j, passes, moves>>
linkVars == <<ordered, links, idx>>

(***************************************************************************)
(* /depot and a shared location: depot(update, context).                   *)
(***************************************************************************)
Depot ==
    /\ pc = "idle"
    /\ \E in \in DepotInputs :
          IF in.args /= <<>>
          THEN IF geocode(in.args[1]) /= <<>>
               THEN depot' = geocode(in.args[1])
               ELSE depot' = depot
          ELSE IF in.location /= <<>>
               THEN depot' = in.location
               ELSE depot' = depot
    /\ UNCHANGED <<pc, caller, points, labels, nnVars, twoOptVars, results,
                   linkVars, response>>

(***************************************************************************)
(* handle_addresses up to its call of nearest_neighbor(points, 0).         *)
(***************************************************************************)
HandleAddresses ==
    /\ pc = "idle"
    /\ \E lines \in (IF depot = <<>> THEN {<<>>} ELSE MessageLines(depot[1])) :
          IF depot = <<>>
          THEN /\ response' = <<[kind |-> "no_depot"]>>
               /\ pc' = "done"
               /\ UNCHANGED <<points, labels, nnVars>>
          ELSE IF \E k \in 1..Len(lines) : geocode(lines[k]) = <<>>
          THEN /\ response' = <<[kind |-> "geocode_failed"]>>
               /\ pc' = "done"
               /\ UNCHANGED <<points, labels, nnVars>>
          ELSE /\ labels' = <<DepotLabel>> \o lines
               /\ NNBegin(<<depot[1]>> \o [k \in 1..Len(lines) |-> geocode(lines[k])[1]], 0)
               /\ response' = <<>>
    /\ caller' = "handle_addresses"
    /\ UNCHANGED <<depot, twoOptVars, results, linkVars>>

(***************************************************************************)
(* The core functions called on their own (before any depot is set: they   *)
(* do not read it).                                                        *)
(***************************************************************************)
NearestNeighborCall(PointSets) ==
    /\ pc = "idle"
    /\ depot = <<>>
    /\ \E pts \in PointSets : \E s \in 0..(Len(pts) - 1) : NNBegin(pts, s)
    /\ caller' = "nearest_neighbor"
    /\ UNCHANGED <<depot, labels, twoOptVars, results, linkVars, response>>

TwoOptCall(PointSets) ==
    /\ pc = "idle"
    /\ depot = <<>>
    /\ \E pts \in PointSets : \E t \in Tours(Len(pts)) :
          /\ points' = pts
          /\ TwoOptBegin(t)
    /\ caller' = "two_opt"
    /\ UNCHANGED <<depot, labels, nnVars, results, linkVars, response>>

CallNearestNeighbor == NearestNeighborCall(GridPointSets)

CallTwoOpt == TwoOptCall(DistinctPointSets)

CallBuildMapsLinks ==
    /\ pc = "idle"
    /\ depot = <<>>
    /\ \E pts \in PointLists : LinksBegin(pts)
    /\ caller' = "build_maps_links"
    /\ UNCHANGED <<depot, points, labels, nnVars, twoOptVars, results, response>>

(***************************************************************************)
(* nearest_neighbor: one iteration of "while unvisited", and its return.   *)
(***************************************************************************)
NNWhile ==
    /\ pc = "nn_while"
    /\ unvisited /= <<>>
    /\ LET next_idx == NearestIn(unvisited, current, points)
       IN  /\ path' = Append(path, next_idx)
           /\ unvisited' = Remove(unvisited, next_idx)
           /\ current' = next_idx
    /\ UNCHANGED <<pc, caller, depot, points, labels, start_index, twoOptVars,
                   results, linkVars, response>>

\* "return path"; in handle_addresses the next statement is
\* "optimized = two_opt(route, points)" with route the path returned.
NNReturn ==
    /\ pc = "nn_while"
    /\ unvisited = <<>>
    /\ IF caller = "handle_addresses"
       THEN TwoOptBegin(path)
       ELSE /\ pc' = "done"
            /\ UNCHANGED twoOptVars
    /\ UNCHANGED <<caller, depot, points, labels, nnVars, results, linkVars, response>>

(***************************************************************************)
(* two_opt: the head of a pass, one iteration of the inner loop, the       *)
(* return.                                                                 *)
(***************************************************************************)
\* "while improved:" taken, "improved = False", and the heads of the two
\* for-loops.  range(1, len(best) - 2) is empty for tours shorter than four:
\* the pass then ends at once with "route = best".
TwoOptWhile ==
    /\ pc = "two_opt_while"
    /\ WhileCondition(improved)
    /\ improved' = FALSE
    /\ passes' = Count(passes)
    /\ IF 1 < Len(best) - 2
       THEN /\ i' = 1
            /\ j' = 2
            /\ pc' = "two_opt_for"
            /\ route' = route
       ELSE /\ route' = best
            /\ UNCHANGED <<i, j, pc>>
    /\ UNCHANGED <<caller, depot, points, labels, nnVars, tour, best, moves,
                   results, linkVars, response>>

\* The body of the inner loop at (i, j), then the step of the loops: the next
\* j, or the next i with j = i + 1, or the end of the pass ("route = best").
TwoOptFor ==
    /\ pc = "two_opt_for"
    /\ LET after == ForBody(best, improved, points, i, j)
       IN  /\ best' = after.best
           /\ improved' = after.improved
           /\ moves' = IF after.best /= best THEN Count(moves) ELSE moves
           /\ IF j + 1 < Len(best)
              THEN /\ j' = j + 1
                   /\ UNCHANGED <<i, route, pc>>
              ELSE IF i + 1 < Len(best) - 2
              THEN /\ i' = i + 1
                   /\ j' = i + 2
                   /\ UNCHANGED <<route, pc>>
              ELSE /\ route' = after.best
                   /\ pc' = "two_opt_while"
                   /\ UNCHANGED <<i, j>>
    /\ UNCHANGED <<caller, depot, points, labels, nnVars, tour, passes,
                   results, linkVars, response>>

\* "return best"; in handle_addresses the next statements build order_lines
\* and call build_maps_links([points[i] for i in optimized]).
TwoOptReturn ==
    /\ pc = "two_opt_while"
    /\ ~WhileCondition(improved)
    /\ results' = Append(results, [tour |-> tour, best |-> best,
                                     passes |-> passes, moves |-> moves])
    /\ IF caller = "handle_addresses"
       THEN LinksBegin([k \in 1..Len(best) |-> points[best[k] + 1]])
       ELSE /\ pc' = "done"
            /\ UNCHANGED linkVars
    /\ UNCHANGED <<caller, depot, points, labels, nnVars, twoOptVars, response>>

\* two_opt applied once more, to the tour it returned: two_opt(two_opt(t, p), p).
Reapply ==
    /\ pc = "done"
    /\ caller = "two_opt"
    /\ Len(results) = 1
    /\ TwoOptBegin(best)
    /\ UNCHANGED <<caller, depot, points, labels, nnVars, results, linkVars, response>>

(***************************************************************************)
(* build_maps_links: one iteration of its loop, and its return.            *)
(***************************************************************************)
LinksFor ==
    /\ pc = "links_for"
    /\ idx < Len(ordered)
    /\ links' = Append(links, LinkOf(ChunkAt(ordered, idx)))
    /\ idx' = idx + chunk_size
    /\ UNCHANGED <<pc, caller, depot, points, labels, nnVars, twoOptVars, results,
                   ordered, response>>

\* "return links"; handle_addresses then replies with the order of the stops
\* (the label of every element of optimized) and the links.
LinksReturn ==
    /\ pc = "links_for"
    /\ idx >= Len(ordered)
    /\ pc' = "done"
    /\ IF caller = "handle_addresses"
       THEN response' = <<[kind  |-> "route",
                           order |-> [k \in 1..Len(best) |-> labels[best[k] + 1]],
                           links |-> links]>>
       ELSE response' = response
    /\ UNCHANGED <<caller, depot, points, labels, nnVars, twoOptVars, results, linkVars>>

Next ==
    \/ Depot
    \/ HandleAddresses
    \/ CallNearestNeighbor
    \/ CallTwoOpt
    \/ CallBuildMapsLinks
    \/ NNWhile
    \/ NNReturn
    \/ TwoOptWhile
    \/ TwoOptFor
    \/ TwoOptReturn
    \/ Reapply
    \/ LinksFor
    \/ LinksReturn

Spec == Init /\ [][Next]_vars

(***************************************************************************)
(* The fair specification: the core functions called on the first n of     *)
(* Coords.  The functions are synchronous, single-threaded code: a loop    *)
(* that can take a step takes it, which is weak fairness of the next-state *)
(* relation.                                                               *)
(***************************************************************************)
LiveCallNearestNeighbor == NearestNeighborCall(PrefixPointSets)

LiveCallTwoOpt == TwoOptCall(PrefixPointSets)

LiveNext ==
    \/ LiveCallNearestNeighbor
    \/ LiveCallTwoOpt
    \/ NNWhile
    \/ NNReturn
    \/ TwoOptWhile
    \/ TwoOptFor
    \/ TwoOptReturn

LiveSpec == Init /\ [][LiveNext]_vars /\ WF_vars(LiveNext)

(***************************************************************************)
(* Properties of nearest_neighbor.                                         *)
(***************************************************************************)
\* nearest_neighbor has begun and is not in its loop: path is what it returned.
NNReturned == path /= <<>> /\ pc /= "nn_while"

\* The number of positions of the sequence s that hold x.
Occurrences(s, x) == Cardinality({k \in 1..Len(s) : s[k] = x})

\* s is a permutation of 0..n-1.
IsTour(s, n) == Len(s) = n /\ \A x \in 0..(n - 1) : Occurrences(s, x) = 1

\* C1: nearest_neighbor(points, start_index) returns each index 0..n-1 exactly
\* once, n elements in all, the first of them start_index; for one point it
\* returns [start_index].
C1_NearestNeighborPermutation ==
    NNReturned =>
        /\ IsTour(path, Len(points))
        /\ path[1] = start_index
        /\ (Len(points) = 1 => path = <<start_index>>)

\* nearest_neighbor returned a tour of four or more points begun at index 2.
C1_Witness ==
    /\ NNReturned
    /\ caller = "nearest_neighbor"
    /\ Len(path) >= 4
    /\ start_index = 2

\* The grid scenario: indices 1 and 3 are equidistant from index 0.
Scenario == << <<0, 0>>, <<0, 1>>, <<0, 2>>, <<1, 0>> >>

\* C9: every element of the path after the first is, among the indices not
\* placed before it, one nearest to the element before it, and the lowest
\* index among those equally near; the grid scenario yields [0, 1, 2, 3].
C9_NearestAndLowestIndex ==
    /\ \A k \in 2..Len(path) :
          LET prev == path[k - 1]
              free == (0..(Len(points) - 1)) \ {path[m] : m \in 1..(k - 1)}
              d(x) == haversine(points[prev + 1], points[x + 1])
          IN  /\ path[k] \in free
              /\ \A x \in free : d(path[k]) <= d(x)
              /\ \A x \in free : d(x) = d(path[k]) => path[k] <= x
    /\ (NNReturned /\ points = Scenario /\ start_index = 0) => path = <<0, 1, 2, 3>>

\* nearest_neighbor returned [0, 1, 2, 3] for the grid scenario, where the
\* second element was chosen among two equally near indices.
C9_Witness ==
    /\ NNReturned
    /\ points = Scenario
    /\ start_index = 0
    /\ path = <<0, 1, 2, 3>>
    /\ haversine(points[1], points[2]) = haversine(points[1], points[4])

(***************************************************************************)
(* Properties of two_opt.                                                  *)
(***************************************************************************)
\* two_opt is running: in its while-loop or in its for-loops.
InTwoOpt == pc \in {"two_opt_while", "two_opt_for"}

\* two_opt has been called (tour is its argument, best its current best tour).
TwoOptBegun == tour /= <<>>

\* The tour t with the positions a..b (0-based, both included) reversed.
ReverseBetween(t, a, b) ==
    [k \in 1..Len(t) |-> IF k - 1 >= a /\ k - 1 <= b THEN t[a + b + 2 - k] ELSE t[k]]

\* The best tour is never longer than the tour two_opt was called with.
C2_NotLonger ==
    /\ TwoOptBegun => route_distance(best, points) <= route_distance(tour, points)
    /\ \A k \in 1..Len(results) :
          route_distance(results[k].best, points) <= route_distance(results[k].tour, points)

\* C2: the open-path length of two_opt(t, points) is at most that of t, and the
\* length of the best tour never increases at any step of two_opt.
C2_LengthNeverIncreases ==
    /\ []C2_NotLonger
    /\ [][InTwoOpt => route_distance(best', points) <= route_distance(best, points)]_vars

\* two_opt returned, on its own, a tour shorter than its argument after
\* accepting two moves or more.
C2_Witness ==
    /\ pc = "done"
    /\ caller = "two_opt"
    /\ moves >= 2
    /\ route_distance(best, points) < route_distance(tour, points)

\* C3: at every step of two_opt and on return the best tour is a permutation
\* of the indices of the tour passed in, with the same first element; the
\* order handle_addresses replies with lists the depot first and every stop
\* exactly once.
C3_PermutationDepotFirst ==
    /\ TwoOptBegun =>
          /\ Len(best) = Len(tour)
          /\ \A x \in Elems(tour) : Occurrences(best, x) = 1
          /\ best[1] = tour[1]
    /\ \A k \in 1..Len(results) :
          /\ IsTour(results[k].best, Len(points))
          /\ results[k].best[1] = results[k].tour[1]
    /\ (response /= <<>> /\ response[1].kind = "route") =>
          /\ Len(response[1].order) = Len(labels)
          /\ response[1].order[1] = DepotLabel
          /\ \A x \in Elems(labels) : Occurrences(response[1].order, x) = 1

\* handle_addresses replied with an order of five stops that two_opt changed.
C3_Witness ==
    /\ response /= <<>>
    /\ response[1].kind = "route"
    /\ Len(response[1].order) >= 5
    /\ best /= path
    /\ best[1] = 0

\* C6: two_opt applied to a tour it returned gives a tour of the same length,
\* in one pass that accepts no move.
C6_FixedPoint ==
    \A k \in 2..Len(results) :
        (caller = "two_opt") =>
            /\ results[k].tour = results[k - 1].best
            /\ route_distance(results[k].best, points) =
                   route_distance(results[k - 1].best, points)
            /\ results[k].passes = 1
            /\ results[k].moves = 0

\* two_opt was applied twice, and its first application accepted two moves or
\* more in three passes or more.
C6_Witness ==
    /\ caller = "two_opt"
    /\ Len(results) >= 2
    /\ results[1].moves >= 2
    /\ results[1].passes >= 3

\* C10: the last element of the best tour is the last element of the tour
\* passed in at every step of two_opt and on return: a candidate reverses the
\* positions i..j-1 with 1 <= i and j <= len - 1; in handle_addresses the stop
\* nearest_neighbor placed last is last in the optimized order.
C10_LastStaysLast ==
    /\ TwoOptBegun => best[Len(best)] = tour[Len(tour)]
    /\ pc = "two_opt_for" =>
          /\ 1 <= i /\ i < j /\ j <= Len(best) - 1
          /\ Candidate(best, i, j)[Len(best)] = best[Len(best)]
    /\ \A k \in 1..Len(results) :
          results[k].best[Len(points)] = results[k].tour[Len(points)]
    /\ (response /= <<>> /\ response[1].kind = "route") =>
          response[1].order[Len(labels)] = labels[path[Len(path)] + 1]

\* handle_addresses replied with an order that two_opt changed, whose last
\* stop is the one nearest_neighbor placed last.
C10_Witness ==
    /\ response /= <<>>
    /\ response[1].kind = "route"
    /\ moves >= 1
    /\ best /= path
    /\ best[Len(best)] = path[Len(path)]

\* C8 as stated: in a tour two_opt returned, no reversal of the positions
\* i..j (both included) with 1 <= i < j <= n - 1 gives a shorter tour.
C8_NoImprovingMove ==
    \A k \in 1..Len(results) :
        LET t == results[k].best
        IN  \A a \in 1..(Len(t) - 1) : \A b \in (a + 1)..(Len(t) - 1) :
                ~(route_distance(ReverseBetween(t, a, b), points) < route_distance(t, points))

\* What two_opt does reach: no reversal that leaves the last position alone
\* (1 <= i < j <= n - 2) gives a shorter tour.
NoImprovingMoveBeforeLast ==
    \A k \in 1..Len(results) :
        LET t == results[k].best
        IN  \A a \in 1..(Len(t) - 2) : \A b \in (a + 1)..(Len(t) - 2) :
                ~(route_distance(ReverseBetween(t, a, b), points) < route_distance(t, points))

\* C7: two_opt, once called, returns, and every accepted move makes the best
\* tour strictly shorter; nearest_neighbor, once called, returns with all n
\* indices placed.
C7_Termination ==
    /\ InTwoOpt ~> (pc \in {"links_for", "done"})
    /\ (pc = "nn_while") ~> (pc /= "nn_while" /\ Len(path) = Len(points))
    /\ [][(InTwoOpt /\ best' /= best) =>
            route_distance(best', points) < route_distance(best, points)]_vars

\* two_opt returned after three passes or more in which it accepted two
\* moves or more.
C7_Witness ==
    /\ pc = "done"
    /\ caller = "two_opt"
    /\ Len(results) = 1
    /\ passes >= 3
    /\ moves >= 2

\* The measure that ends two_opt: the length of the best tour, then the flag
\* improved, then the iterations left in the pass.
TwoOptRank ==
    <<route_distance(best, points),
      IF improved THEN 1 ELSE 0,
      IF pc = "two_opt_for" THEN Len(best) * Len(best) - (i * Len(best) + j) ELSE 0>>

LexLess(a, b) ==
    \/ a[1] < b[1]
    \/ a[1] = b[1] /\ a[2] < b[2]
    \/ a[1] = b[1] /\ a[2] = b[2] /\ a[3] < b[3]

\* Every step inside two_opt makes the measure smaller, for every input of the
\* specification Spec.
TwoOptRankDecreases == [][(InTwoOpt /\ InTwoOpt') => LexLess(TwoOptRank', TwoOptRank)]_vars

(***************************************************************************)
(* Properties of build_maps_links.                                         *)
(***************************************************************************)
\* build_maps_links has returned.
LinksReturned == pc = "done" /\ caller \in {"build_maps_links", "handle_addresses"}
                    /\ (caller = "handle_addresses" => response[1].kind = "route")

CeilDiv(n, k) == (n + k - 1) \div k

\* The points a descriptor was built from: origin, waypoints, destination.
DescriptorPoints(link) == <<link.origin>> \o link.waypoints \o <<link.destination>>

\* C4 as stated: when the list spans more than one chunk, the destination of
\* every descriptor is the same point of the list as the origin of the next
\* descriptor, so that the descriptors leave no leg of the route uncovered:
\* descriptor k + 1 starts at the position of the list where descriptor k ends.
C4_SharedBoundaryPoint ==
    (LinksReturned /\ Len(links) > 1) =>
        \A k \in 1..(Len(links) - 1) :
            /\ links[k].destination = links[k + 1].origin
            /\ links[k + 1].origin = CoordText(ordered[Min(k * chunk_size, Len(ordered))])

\* C5: n points give ceil(n / 10) descriptors in chunk order; descriptor d is
\* built from the points 10(d-1)+1 .. min(10d, n) of the list: origin the
\* first, destination the last, waypoints those between (at most 8); every
\* descriptor but the last is built from exactly 10 points.
C5_ChunkCountAndSizes ==
    /\ pc = "links_for" => Len(links) = Min(idx, Len(ordered) + chunk_size - 1) \div chunk_size
    /\ LinksReturned => Len(links) = CeilDiv(Len(ordered), chunk_size)
    /\ (pc = "links_for" \/ LinksReturned) =>
          \A d \in 1..Len(links) :
              LET lo   == (d - 1) * chunk_size + 1
                  hi   == Min(d * chunk_size, Len(ordered))
                  size == hi - lo + 1
              IN  /\ size >= 1 /\ size <= chunk_size
                  /\ links[d].origin = CoordText(ordered[lo])
                  /\ links[d].destination = CoordText(ordered[hi])
                  /\ Len(links[d].waypoints) = (IF size > 2 THEN size - 2 ELSE 0)
                  /\ Len(links[d].waypoints) <= chunk_size - 2
                  /\ \A m \in 1..Len(links[d].waypoints) :
                         links[d].waypoints[m] = CoordText(ordered[lo + m])
                  /\ (d < Len(links) => size = chunk_size)
    /\ (LinksReturned /\ Len(ordered) = 25) =>
          /\ Len(links) = 3
          /\ Len(DescriptorPoints(links[1])) = 10
          /\ Len(DescriptorPoints(links[2])) = 10
          /\ Len(DescriptorPoints(links[3])) = 5

\* build_maps_links returned three descriptors for 25 points, not all equal.
C5_Witness ==
    /\ LinksReturned
    /\ caller = "build_maps_links"
    /\ Len(ordered) = 25
    /\ Len(links) = 3
    /\ Len(links[3].waypoints) = 3
    /\ ordered[1] /= ordered[2]

====
